---- MODULE Spec2Model ----
(***************************************************************************)
(* Model of the Lang localization singleton of YAMDBF                       *)
(* (src/src/localization/Lang.ts, the class that starts at line 191).       *)
(*                                                                          *)
(* Text is modelled character by character: a string is a sequence of       *)
(* one-character strings, so the regular expressions of Lang.res are        *)
(* matched the way the JavaScript engine matches them.                      *)
(***************************************************************************)
EXTENDS Integers, Sequences, FiniteSets, TLC

(***************************************************************************)
(* Characters and string primitives                                         *)
(***************************************************************************)

\* [a-zA-Z] of the maybeTemplates expression
Letters ==
  { "a","b","c","d","e","f","g","h","i","j","k","l","m",
    "n","o","p","q","r","s","t","u","v","w","x","y","z",
    "A","B","C","D","E","F","G","H","I","J","K","L","M",
    "N","O","P","Q","R","S","T","U","V","W","X","Y","Z" }

\* \s of /^[\s]+/ (the characters of it that the templates can hold)
WhiteSpace == { " ", "\t", "\n", "\r" }

\* the characters after which ^ matches under the m flag
LineTerminators == { "\n", "\r" }

\* least element of a non-empty set of integers
Min(S) == CHOOSE x \in S : \A y \in S : x <= y

\* greatest element of a non-empty set of integers
Max(S) == CHOOSE x \in S : \A y \in S : x >= y

\* s.substring(i - 1, j - 1): the characters i .. j-1 (1-based)
Slice(s, i, j) == SubSeq(s, i, j - 1)

\* the literal p occurs in s at position i
HasAt(s, i, p) ==
  /\ i >= 1
  /\ i + Len(p) - 1 <= Len(s)
  /\ \A k \in 1..Len(p) : s[i + k - 1] = p[k]

\* position after the longest run, starting at i, of characters of C (greedy C*)
SkipSet(s, i, C) ==
  Min({ j \in i..(Len(s) + 1) : j = Len(s) + 1 \/ s[j] \notin C })

\* ^ under the m flag: the start of the text or just after a line terminator
AtLineStart(s, i) == i = 1 \/ (i > 1 /\ i <= Len(s) + 1 /\ s[i - 1] \in LineTerminators)

\* String.prototype.indexOf, 1-based; 0 when p does not occur in s
IndexOf(s, p) ==
  LET hits == { i \in 1..(Len(s) + 1) : HasAt(s, i, p) }
  IN IF hits = {} THEN 0 ELSE Min(hits)

\* s.replace(pattern, () => rep) with a string pattern: the first occurrence only
ReplaceFirst(s, p, rep) ==
  LET i == IndexOf(s, p)
  IN IF i = 0 THEN s
     ELSE Slice(s, 1, i) \o rep \o Slice(s, i + Len(p), Len(s) + 1)

(***************************************************************************)
(* The regular expressions of Lang.res.  Each XxxEnd(s, i, ...) is the      *)
(* position just after the match that starts at position i, 0 when the      *)
(* expression does not match there.                                         *)
(***************************************************************************)

\* new RegExp(`{{ *${template} *\\?}}`) when optionalOnly, and
\* new RegExp(`{{ *${template} *\\??}}`) otherwise; name holds no
\* character that is special in a regular expression
TokenEnd(s, i, name, optionalOnly) ==
  IF ~HasAt(s, i, <<"{", "{">>) THEN 0
  ELSE LET a == SkipSet(s, i + 2, {" "})
       IN IF ~HasAt(s, a, name) THEN 0
          ELSE LET b == SkipSet(s, a + Len(name), {" "})
                   q == HasAt(s, b, <<"?">>)
                   c == IF q THEN b + 1 ELSE b
               IN IF optionalOnly /\ ~q THEN 0
                  ELSE IF HasAt(s, c, <<"}", "}">>) THEN c + 2 ELSE 0

\* new RegExp(`{{ *${template} *\\?}}`, 'g').test(loadedString)
HasMaybeToken(s, name) == \E i \in 1..Len(s) : TokenEnd(s, i, name, TRUE) > 0

\* loadedString.replace(new RegExp(`{{ *${template} *\\??}}`, 'g'), () => rep),
\* from position i on
RECURSIVE ReplaceTokens(_, _, _, _)
ReplaceTokens(s, i, name, rep) ==
  IF i > Len(s) THEN <<>>
  ELSE LET e == TokenEnd(s, i, name, FALSE)
       IN IF e > 0 THEN rep \o ReplaceTokens(s, e, name, rep)
          ELSE <<s[i]>> \o ReplaceTokens(s, i + 1, name, rep)

\* {{ *[a-zA-Z]+ *\?}}
MaybeCoreEnd(s, i) ==
  IF ~HasAt(s, i, <<"{", "{">>) THEN 0
  ELSE LET a == SkipSet(s, i + 2, {" "})
           n == SkipSet(s, a, Letters)
           b == SkipSet(s, n, {" "})
       IN IF n > a /\ HasAt(s, b, <<"?", "}", "}">>) THEN b + 3 ELSE 0

\* MaybeEnd as it would be without the ^ of the first alternative
MaybeEndUnanchored(s, i) ==
  LET e == MaybeCoreEnd(s, i)
      w == SkipSet(s, e, {"\t", " "})
  IN IF e = 0 THEN 0
     ELSE IF HasAt(s, w, <<"\n">>) THEN w + 1
     ELSE e

\* maybeTemplates: /^{{ *[a-zA-Z]+ *\?}}[\t ]*\n|{{ *[a-zA-Z]+ *\?}}/gm
MaybeEnd(s, i) ==
  LET e == MaybeCoreEnd(s, i)
      w == SkipSet(s, e, {"\t", " "})
  IN IF e = 0 THEN 0
     ELSE IF AtLineStart(s, i) /\ HasAt(s, w, <<"\n">>) THEN w + 1
     ELSE e

\* .replace(maybeTemplates, ''), from position i on
RECURSIVE StripMaybe(_, _)
StripMaybe(s, i) ==
  IF i > Len(s) THEN <<>>
  ELSE LET e == MaybeEnd(s, i)
       IN IF e > 0 THEN StripMaybe(s, e)
          ELSE <<s[i]>> \o StripMaybe(s, i + 1)

\* .replace(/\\n/g, '\n'): a backslash followed by n becomes a line break
RECURSIVE Unescape(_, _)
Unescape(s, i) ==
  IF i > Len(s) THEN <<>>
  ELSE IF HasAt(s, i, <<"\\", "n">>) THEN <<"\n">> \o Unescape(s, i + 2)
  ELSE <<s[i]>> \o Unescape(s, i + 1)

\* the positions j of a closing !}} that leave [\s\S]+ at least one character
\* after the {{! at position i
Closers(s, i) == { j \in (i + 4)..(Len(s) - 2) : HasAt(s, j, <<"!", "}", "}">>) }

\* the closers that [\t ]*\n follows
LineClosers(s, i) ==
  { j \in Closers(s, i) : HasAt(s, SkipSet(s, j + 3, {"\t", " "}), <<"\n">>) }

\* scriptTemplate: /^{{!([\s\S]+)!}}[\t ]*\n|{{!([\s\S]+)!}}/ at position i.
\* anchored: ^ matches at i.  [\s\S]+ is greedy: the last closer that lets
\* the rest of the alternative match; the first alternative is tried first.
\* end = 0 when there is no match at i.
ScriptMatchAt(s, i, anchored) ==
  IF ~HasAt(s, i, <<"{", "{", "!">>) \/ Closers(s, i) = {}
    THEN [end |-> 0, body |-> <<>>, line |-> FALSE]
  ELSE IF anchored /\ LineClosers(s, i) # {}
    THEN LET j == Max(LineClosers(s, i))
         IN [end |-> SkipSet(s, j + 3, {"\t", " "}) + 1,
             body |-> Slice(s, i + 3, j), line |-> TRUE]
  ELSE LET j == Max(Closers(s, i))
       IN [end |-> j + 3, body |-> Slice(s, i + 3, j), line |-> FALSE]

\* loadedString.match(scriptTemplates) with the g and m flags: the matched
\* texts, leftmost first, from position i on
RECURSIVE ScriptMatches(_, _)
ScriptMatches(s, i) ==
  IF i > Len(s) THEN <<>>
  ELSE LET m == ScriptMatchAt(s, i, AtLineStart(s, i))
       IN IF m.end > 0 THEN <<Slice(s, i, m.end)>> \o ScriptMatches(s, m.end)
          ELSE ScriptMatches(s, i + 1)

\* scriptData.match(scriptTemplate)[1] || scriptData.match(scriptTemplate)[2]:
\* the capture of the leftmost match in scriptData (m flag, not global)
FunctionBodyOf(scriptData) ==
  LET at == { i \in 1..Len(scriptData) :
                ScriptMatchAt(scriptData, i, AtLineStart(scriptData, i)).end > 0 }
      i == Min(at)
  IN ScriptMatchAt(scriptData, i, AtLineStart(scriptData, i)).body

\* /^{{!([\s\S]+)!}}[\t ]*\n/.test(scriptData): no m flag, ^ is the start of
\* scriptData only
OnOwnLine(scriptData) ==
  /\ HasAt(scriptData, 1, <<"{", "{", "!">>)
  /\ LineClosers(scriptData, 1) # {}

(***************************************************************************)
(* JavaScript values, data bags and the scripts a template can embed        *)
(***************************************************************************)

\* the value undefined
Undefined == [type |-> "undefined", str |-> <<>>]

\* a string value
Str(s) == [type |-> "string", str |-> s]

\* `${value}`, and what String.prototype.replace makes of the value that a
\* replacement function returns
JsToString(v) ==
  IF v.type = "undefined" THEN <<"u", "n", "d", "e", "f", "i", "n", "e", "d">>
  ELSE v.str

\* !value is false
Truthy(v) == v.type = "string" /\ v.str # <<>>

\* data[name]: a data bag is the sequence of its [key, val] entries in
\* Object.keys order
DataGet(data, name) ==
  IF \E n \in 1..Len(data) : data[n].key = name
    THEN data[CHOOSE n \in 1..Len(data) : data[n].key = name].val
    ELSE Undefined

\* data[name] = v, for a key the bag holds
DataSet(data, name, v) ==
  [n \in 1..Len(data) |->
     IF data[n].key = name THEN [key |-> name, val |-> v] ELSE data[n]]

\* functionBody.replace(/^[\s]+/, '')
StripLeading(s) == Slice(s, SkipSet(s, 1, WhiteSpace), Len(s) + 1)

\* s without the white space at its two ends
Trim(s) ==
  LET a == SkipSet(s, 1, WhiteSpace)
      keep == { j \in a..Len(s) : s[j] \notin WhiteSpace }
  IN IF keep = {} THEN <<>> ELSE Slice(s, a, Max(keep) + 1)

\* sources of the script bodies the templates of the model embed
SrcReturnV == <<"r","e","t","u","r","n"," ","'","v","'">>
SrcCond == <<"a","r","g","s",".","a","?","'","y","'",":","'","'">>
SrcEmptyStmt == <<";">>
SrcAssign == <<"a","r","g","s",".","t","=","a","r","g","s",".","t",".","x">>

\* `return ${...}`
ReturnPrefix == <<"r","e","t","u","r","n"," ">>

KeyA == <<"a">>
KeyT == <<"t">>

\* new Function('args', 'res', body)(data, res) for the sources above and
\* their `return` forms: status "value" with the value returned and the data
\* bag as the script leaves it, "throw" with `${err}` when the call throws,
\* "syntax" when new Function rejects the body.  Every other body the
\* templates of the model can produce holds the text of two blocks and what
\* lies between them, which is no function body.
RunScript(body, data) ==
  LET src == Trim(body)
      returned(v) == [status |-> "value", val |-> v, err |-> <<>>, data |-> data]
      thrown(e) == [status |-> "throw", val |-> Undefined, err |-> e, data |-> data]
      assign ==
        IF DataGet(data, KeyT).type = "undefined"
          THEN thrown(<<"T","y","p","e","E","r","r","o","r">>)
          ELSE [status |-> "value", val |-> Undefined, err |-> <<>>,
                data |-> DataSet(data, KeyT, Undefined)]
  IN CASE src = SrcReturnV -> returned(Str(<<"v">>))
       [] src = SrcCond -> returned(Undefined)
       [] src = ReturnPrefix \o SrcCond ->
            returned(Str(IF Truthy(DataGet(data, KeyA)) THEN <<"y">> ELSE <<>>))
       [] src = SrcEmptyStmt -> returned(Undefined)
       [] src = ReturnPrefix \o SrcEmptyStmt -> returned(Undefined)
       [] src = SrcAssign -> assign
       [] src = ReturnPrefix \o SrcAssign -> assign
       [] OTHER -> [status |-> "syntax", val |-> Undefined,
                    err |-> <<"S","y","n","t","a","x","E","r","r","o","r">>,
                    data |-> data]

(***************************************************************************)
(* Lang.res                                                                 *)
(***************************************************************************)

\* `${lang}::${key}`
Sentinel(lang, key) == lang \o <<":", ":">> \o key

\* ScriptErrorMessage as it would be if the error of the script were thrown
\* on as it is
BareScriptError(lang, key, err) == err

\* `in embedded localization script for: ${lang}::${key}\n${err}`
ScriptErrorMessage(lang, key, err) ==
  <<"i", "n", " ", "e", "m", "b", "e", "d", "d", "e", "d", " ", "l", "o", "c", "a", "l", "i", "z", "a", "t", "i", "o", "n", " ", "s", "c", "r", "i", "p", "t", " ", "f", "o", "r", ":", " ">>
    \o Sentinel(lang, key) \o <<"\n">> \o err

\* 'Lang singleton instance has not been created'
NotCreatedMessage ==
  <<"L", "a", "n", "g", " ", "s", "i", "n", "g", "l", "e", "t", "o", "n", " ", "i", "n", "s", "t", "a", "n", "c", "e", " ", "h", "a", "s", " ", "n", "o", "t", " ", "b", "e", "e", "n", " ", "c", "r", "e", "a", "t", "e", "d">>

\* names that every object literal inherits from Object.prototype: for these
\* obj[name] is a function, not undefined, also when obj has no such key
ObjectPrototype == { <<"c", "o", "n", "s", "t", "r", "u", "c", "t", "o", "r">> }

\* what a call hands back: the text it returns, or the error it throws
Returned(text, log) ==
  [kind |-> "return", text |-> text, error |-> "", message |-> <<>>, log |-> log]

Thrown(error, message, log) ==
  [kind |-> "throw", text |-> <<>>, error |-> error, message |-> message, log |-> log]

\* the for loop over Object.keys(data), from entry n on
RECURSIVE Substitute(_, _, _)
Substitute(s, data, n) ==
  IF n > Len(data) THEN s
  ELSE LET name == data[n].key
           v == data[n].val
       IN IF HasMaybeToken(s, name) /\ (v = Str(<<>>) \/ v = Undefined)
            THEN Substitute(s, data, n + 1)
            ELSE Substitute(ReplaceTokens(s, 1, name, JsToString(v)), data, n + 1)

\* the text that takes the place of scriptData for a script result
Replacement(scriptData, result) ==
  IF OnOwnLine(scriptData) /\ result # Str(<<>>)
    THEN JsToString(result) \o <<"\n">>
    ELSE JsToString(result)

\* ImplicitReturn as it would be without the second attempt
NoImplicitReturn(functionBody, first) ==
  [result |-> first.val, retry |-> "none", data |-> first.data]

\* the implicit return: when the call returned undefined, the body is run
\* again behind `return `, and what that attempt throws is discarded
ImplicitReturn(functionBody, first) ==
  IF first.val # Undefined
    THEN [result |-> first.val, retry |-> "none", data |-> first.data]
    ELSE LET second == RunScript(ReturnPrefix \o StripLeading(functionBody), first.data)
         IN [result |-> IF second.status = "value" THEN second.val ELSE Undefined,
             retry |-> second.status, data |-> second.data]

\* the for loop over loadedString.match(scriptTemplates), from match n on;
\* log records, for each block evaluated, its text, the body compiled, how
\* the call and the retry ended, the result and the text put in its place
RECURSIVE RunScripts(_, _, _, _, _, _, _)
RunScripts(matches, n, s, data, log, lang, key) ==
  IF n > Len(matches) THEN Returned(s, log)
  ELSE
    LET scriptData == matches[n]
        functionBody == FunctionBodyOf(scriptData)
        first == RunScript(functionBody, data)
        entry(retry, result, out) ==
          [span |-> scriptData, body |-> functionBody, call |-> first.status,
           retry |-> retry, result |-> result, out |-> out]
    IN IF first.status = "syntax"
         THEN Thrown("SyntaxError", <<>>, Append(log, entry("none", Undefined, <<>>)))
       ELSE IF first.status = "throw"
         THEN Thrown("Error", ScriptErrorMessage(lang, key, first.err),
                     Append(log, entry("none", Undefined, <<>>)))
       ELSE
         LET got == ImplicitReturn(functionBody, first)
             out == Replacement(scriptData, got.result)
         IN RunScripts(matches, n + 1, ReplaceFirst(s, scriptData, out), got.data,
                       Append(log, entry(got.retry, got.result, out)), lang, key)

\* Lang.res(lang, key, data) on the string tables L of a created instance.
\* L[lang] stands for the strings of the Language object stored for lang.
Res(L, lang, key, data) ==
  IF lang \notin DOMAIN L /\ lang \notin ObjectPrototype
    THEN Returned(Sentinel(lang, key), <<>>)
  ELSE IF lang \notin DOMAIN L
    \* Lang.langs[lang] is an inherited function: its .strings is undefined
    \* and strings[key] throws
    THEN Thrown("TypeError", <<>>, <<>>)
  ELSE
    LET strings == L[lang]
        loadedString == IF key \in DOMAIN strings THEN strings[key] ELSE <<>>
    IN IF loadedString = <<>> THEN Returned(Sentinel(lang, key), <<>>)
       ELSE
         LET substituted == Substitute(loadedString, data, 1)
             r == RunScripts(ScriptMatches(substituted, 1), 1, substituted, data,
                             <<>>, lang, key)
         IN IF r.kind = "throw" THEN r
            ELSE Returned(Unescape(StripMaybe(r.text, 1), 1), r.log)

(***************************************************************************)
(* Files, and the loading of string resources                               *)
(***************************************************************************)

\* language identifiers and string keys
EN == <<"e", "n", "_", "u", "s">>
FR == <<"f", "r">>
KeyK == <<"k">>
KeyM == <<"m">>

\* a file of a directory: name is the base name split at its dots, entries
\* the definitions of its text in file order, bad tells that reading or
\* parsing the file throws
File(name, entries) == [name |-> name, entries |-> entries, bad |-> FALSE]

\* a file that cannot be read or parsed
Malformed(name) == [name |-> name, entries |-> <<>>, bad |-> TRUE]

\* glob.sync(`${dir}/**/*.lang`): the files of the listing whose name ends
\* in .lang, in the order of the listing
GlobLang(listing) ==
  SelectSeq(listing,
            LAMBDA f : Len(f.name) >= 2 /\ f.name[Len(f.name)] = <<"l", "a", "n", "g">>)

\* langNameRegex.test(langFile): /\/([^\/\.]+)(?:\.[^\/]+)?\.lang$/
LangNameTest(f) ==
  /\ Len(f.name) >= 2
  /\ f.name[Len(f.name)] = <<"l", "a", "n", "g">>
  /\ f.name[1] # <<>>

\* langFile.match(langNameRegex)[1]: the first dot-separated part of the name
LangNameOf(f) == f.name[1]

\* the first loop of loadLocalizationsFrom followed by the iteration order
\* of the second: the files grouped by language, the languages in the order
\* of their first file (Object.keys), the files of a language in the order
\* of the listing
RECURSIVE GroupByLang(_, _)
GroupByLang(files, seen) ==
  IF files = <<>> THEN <<>>
  ELSE LET f == Head(files)
       IN IF ~LangNameTest(f) \/ LangNameOf(f) \in seen
            THEN GroupByLang(Tail(files), seen)
            ELSE SelectSeq(files,
                           LAMBDA g : LangNameTest(g) /\ LangNameOf(g) = LangNameOf(f))
                 \o GroupByLang(Tail(files), seen \cup {LangNameOf(f)})

\* .replace(/\r\n/g, '\n')
RECURSIVE NormalizeEol(_, _)
NormalizeEol(s, i) ==
  IF i > Len(s) THEN <<>>
  ELSE IF HasAt(s, i, <<"\r", "\n">>) THEN <<"\n">> \o NormalizeEol(s, i + 2)
  ELSE <<s[i]>> \o NormalizeEol(s, i + 1)

\* LangFileParser.parseFile(langName, text): the strings of the Language it
\* builds, a later definition of a key replacing an earlier one
RECURSIVE ParseFile(_, _)
ParseFile(entries, n) ==
  IF n = 0 THEN <<>>
  ELSE LET before == ParseFile(entries, n - 1)
           e == entries[n]
       IN [k \in DOMAIN before \cup {e.key} |->
             IF k = e.key THEN NormalizeEol(e.val, 1) ELSE before[k]]

\* Language.concat(fragment): the strings of the receiver after the merge
Concat(strings, fragment) ==
  [k \in DOMAIN strings \cup DOMAIN fragment |->
     IF k \in DOMAIN fragment THEN fragment[k] ELSE strings[k]]

\* MergeFile as it would be if a language already in the tables were left as
\* it is (the merge of the parsed file dropped)
MergeFileOnlyNew(L, f) ==
  LET langName == LangNameOf(f)
      parsed == ParseFile(f.entries, Len(f.entries))
  IN IF langName \in DOMAIN L
       THEN L
       ELSE [l \in DOMAIN L \cup {langName} |-> IF l = langName THEN parsed ELSE L[l]]

\* MergeFile as it would be if the text of a key defined again were put
\* behind the text already stored
MergeFileAppending(L, f) ==
  LET langName == LangNameOf(f)
      parsed == ParseFile(f.entries, Len(f.entries))
  IN IF langName \in DOMAIN L
       THEN [l \in DOMAIN L |->
               IF l = langName
                 THEN [k \in DOMAIN L[l] \cup DOMAIN parsed |->
                         IF k \in DOMAIN L[l] /\ k \in DOMAIN parsed THEN L[l][k] \o parsed[k]
                         ELSE IF k \in DOMAIN parsed THEN parsed[k]
                         ELSE L[l][k]]
                 ELSE L[l]]
       ELSE [l \in DOMAIN L \cup {langName} |-> IF l = langName THEN parsed ELSE L[l]]

\* MergeFile as it would be if the parsed file took the place of the table
\* of its language
MergeFileReplacing(L, f) ==
  LET langName == LangNameOf(f)
      parsed == ParseFile(f.entries, Len(f.entries))
  IN [l \in DOMAIN L \cup {langName} |-> IF l = langName THEN parsed ELSE L[l]]

\* the body of the second loop of loadLocalizationsFrom for one file
MergeFile(L, f) ==
  LET langName == LangNameOf(f)
      parsed == ParseFile(f.entries, Len(f.entries))
  IN IF langName \in DOMAIN L
       THEN [l \in DOMAIN L |-> IF l = langName THEN Concat(L[l], parsed) ELSE L[l]]
       ELSE [l \in DOMAIN L \cup {langName} |-> IF l = langName THEN parsed ELSE L[l]]

\* the second loop of loadLocalizationsFrom over the grouped files, from
\* file n on: readFileSync and parseFile are called outside of any try, so
\* the loop ends at the first file that throws
RECURSIVE MergeFiles(_, _, _)
MergeFiles(L, files, n) ==
  IF n > Len(files) \/ files[n].bad THEN L
  ELSE MergeFiles(MergeFile(L, files[n]), files, n + 1)

\* the second loop of loadLocalizationsFrom throws
MergeThrows(files) == \E n \in 1..Len(files) : files[n].bad

(***************************************************************************)
(* The state of the singleton and of what it works on                       *)
(***************************************************************************)

VARIABLES
  instance,     \* Lang._instance has been set
  langs,        \* Lang._instance._langs: language -> key -> template
  commandInfo,  \* Lang._instance._commandInfo: command -> language -> help text
  groupInfo,    \* Lang._instance._groupInfo: group -> language -> description
  meta,         \* Lang._instance._meta: language -> key -> value
  setlang,      \* the setlang command of client.commands: "absent", "enabled", "disabled"
  client,       \* the options of the Client: passive, disableBase has setlang, localeDir
  disk,         \* directory -> listing of its files in discovery order
  ret           \* the last call of an operation and what it handed back

vars == <<instance, langs, commandInfo, groupInfo, meta, setlang, client, disk, ret>>

\* an object without keys
EmptyMap == [k \in {} |-> <<>>]

\* the record of a call: op and its arguments, and the outcome of it
Call(op, dir, lang, key, data, outcome) ==
  [op |-> op, dir |-> dir, lang |-> lang, key |-> key, data |-> data,
   kind |-> outcome.kind, text |-> outcome.text, error |-> outcome.error,
   message |-> outcome.message, log |-> outcome.log,
   value |-> <<>>, repeat |-> FALSE]

\* a call that returns nothing
Done == Returned(<<>>, <<>>)

\* throw new Error('Lang singleton instance has not been created')
NotCreated == Thrown("Error", NotCreatedMessage, <<>>)

\* Lang.langNames
LangNames(L, C) == DOMAIN L \cup UNION { DOMAIN C[c] : c \in DOMAIN C }

\* Lang.postLoad run when the setlang command is in state s: the state of
\* the command after it
PostLoadFrom(s, L, C) ==
  IF /\ Cardinality(LangNames(L, C)) > 1
     /\ ~client.disableSetlang
     /\ s = "disabled"
    THEN "enabled"
    ELSE s

\* Lang.postLoad: the state of the setlang command after it
PostLoad(L, C) == PostLoadFrom(setlang, L, C)

\* CreateInstance as it would be if every call constructed the engine anew
CreateInstanceAnew ==
  /\ instance' = TRUE
  /\ langs' = EmptyMap
  /\ commandInfo' = EmptyMap
  /\ groupInfo' = EmptyMap
  /\ meta' = EmptyMap
  /\ ret' = Call("createInstance", "", <<>>, <<>>, <<>>, Done)
  /\ UNCHANGED <<setlang, client, disk>>

\* Lang.createInstance(client) and the constructor it calls
CreateInstance ==
  /\ instance' = TRUE
  /\ langs' = IF instance THEN langs ELSE EmptyMap
  /\ commandInfo' = IF instance THEN commandInfo ELSE EmptyMap
  /\ groupInfo' = IF instance THEN groupInfo ELSE EmptyMap
  /\ meta' = IF instance THEN meta ELSE EmptyMap
  /\ ret' = Call("createInstance", "", <<>>, <<>>, <<>>, Done)
  /\ UNCHANGED <<setlang, client, disk>>

\* `Failed to find any localization files in: ${dir}`
NoFilesMessage(dir) == <<"Failed to find any localization files in: ", dir>>

\* LoadOutcome as it would be if a directory without resource files were
\* passed over in silence
LoadOutcomeQuiet(dir) ==
  IF MergeThrows(GroupByLang(GlobLang(disk[dir]), {})) THEN Thrown("FileError", <<>>, <<>>)
  ELSE Done

\* what a call of loadLocalizationsFrom(dir) on a created instance hands back:
\* the error of line 338, the error of the file that cannot be read or
\* parsed, or nothing
LoadOutcome(dir) ==
  LET allLangFiles == GlobLang(disk[dir])
  IN IF allLangFiles = <<>> THEN Thrown("Error", NoFilesMessage(dir), <<>>)
     ELSE IF MergeThrows(GroupByLang(allLangFiles, {})) THEN Thrown("FileError", <<>>, <<>>)
     ELSE Done

\* the string tables after loadLocalizationsFrom(dir) on the tables L
LoadedFrom(L, dir) == MergeFiles(L, GroupByLang(GlobLang(disk[dir]), {}), 1)

\* Lang.loadLocalizationsFrom(dir)
LoadLocalizationsFrom(dir) ==
  LET outcome == IF instance THEN LoadOutcome(dir) ELSE NotCreated
      loaded == IF instance THEN LoadedFrom(langs, dir) ELSE langs
  IN /\ ret' = [Call("loadLocalizationsFrom", dir, <<>>, <<>>, <<>>, outcome)
                  EXCEPT !.repeat = /\ ret.op = "loadLocalizationsFrom"
                                    /\ ret.dir = dir
                                    /\ ret.kind = "return"
                                    /\ outcome.kind = "return"]
     /\ langs' = loaded
     /\ setlang' = IF outcome.kind = "return" THEN PostLoad(loaded, commandInfo) ELSE setlang
     /\ UNCHANGED <<instance, commandInfo, groupInfo, meta, client, disk>>

\* the setlang command after the Client constructor has loaded the base
\* commands, L and C being the tables at that time (lines 259-267)
BaseCommandsLoaded(L, C) ==
  IF client.disableSetlang THEN "absent"
  ELSE IF Cardinality(LangNames(L, C)) = 1 THEN "disabled"
  ELSE "enabled"

\* the Client constructor after Lang.loadLocalizations(): a client that is
\* not passive loads the base commands and disables setlang when a single
\* language is known
LoadBaseCommands ==
  /\ instance
  /\ ~client.passive
  /\ setlang = "absent"
  /\ setlang' = BaseCommandsLoaded(langs, commandInfo)
  /\ ret' = Call("loadBaseCommands", "", <<>>, <<>>, <<>>, Done)
  /\ UNCHANGED <<instance, langs, commandInfo, groupInfo, meta, client, disk>>

\* ResCall as it would be if res kept the text it has resolved in the place
\* of the template
ResCallCaching(lang, key, data) ==
  LET outcome == IF instance THEN Res(langs, lang, key, data) ELSE NotCreated
      found == instance /\ lang \in DOMAIN langs /\ key \in DOMAIN langs[lang]
  IN /\ ret' = Call("res", "", lang, key, data, outcome)
     /\ langs' = IF found /\ outcome.kind = "return"
                   THEN [langs EXCEPT ![lang][key] = outcome.text]
                   ELSE langs
     /\ UNCHANGED <<instance, commandInfo, groupInfo, meta, setlang, client, disk>>

\* Lang.res(lang, key, data), also through a loader of createResourceLoader
ResCall(lang, key, data) ==
  /\ ret' = Call("res", "", lang, key, data,
                 IF instance THEN Res(langs, lang, key, data) ELSE NotCreated)
  /\ UNCHANGED <<instance, langs, commandInfo, groupInfo, meta, setlang, client, disk>>

(***************************************************************************)
(* Metadata, command help text and group descriptions                      *)
(***************************************************************************)

\* Util.getNestedValue(obj, path): the value at the path, undefined when a
\* part of the path is absent
RECURSIVE GetNestedValue(_, _)
GetNestedValue(obj, path) ==
  IF path = <<>> THEN obj
  ELSE IF Head(path) \in DOMAIN obj THEN GetNestedValue(obj[Head(path)], Tail(path))
  ELSE Undefined

\* Util.assignNestedValue(obj, [a, b], value): obj after the assignment
AssignNestedValue(obj, a, b, value) ==
  LET inner == IF a \in DOMAIN obj THEN obj[a] ELSE EmptyMap
  IN [x \in DOMAIN obj \cup {a} |->
        IF x = a
          THEN [y \in DOMAIN inner \cup {b} |-> IF y = b THEN value ELSE inner[y]]
          ELSE obj[x]]

\* a || b
Or(a, b) == IF Truthy(a) THEN a ELSE b

\* a call that hands back the value v
Read(op, lang, key, v) ==
  [Call(op, "", lang, key, <<>>, Done) EXCEPT !.value = v]

\* Guarded as it would be without the test of Lang._instance
Unguarded(op, dir, lang, key, call) == call

\* what an operation that starts with the test of Lang._instance hands back
Guarded(op, dir, lang, key, call) ==
  IF instance THEN call ELSE Call(op, dir, lang, key, <<>>, NotCreated)

\* the getter Lang.langs
Langs ==
  /\ ret' = Guarded("langs", "", <<>>, <<>>, Read("langs", <<>>, <<>>, langs))
  /\ UNCHANGED <<instance, langs, commandInfo, groupInfo, meta, setlang, client, disk>>

\* the getter Lang.langNames
LangNamesGet ==
  /\ ret' = Guarded("langNames", "", <<>>, <<>>,
                    Read("langNames", <<>>, <<>>, LangNames(langs, commandInfo)))
  /\ UNCHANGED <<instance, langs, commandInfo, groupInfo, meta, setlang, client, disk>>

\* Lang.setMetaValue(lang, key, value)
SetMetaValue(lang, key, value) ==
  /\ ret' = Guarded("setMetaValue", "", lang, key, Call("setMetaValue", "", lang, key, <<>>, Done))
  /\ meta' = IF instance THEN AssignNestedValue(meta, lang, key, value) ELSE meta
  /\ UNCHANGED <<instance, langs, commandInfo, groupInfo, setlang, client, disk>>

\* Lang.getMetaValue(lang, key)
GetMetaValue(lang, key) ==
  /\ ret' = Guarded("getMetaValue", "", lang, key,
                    Read("getMetaValue", lang, key, GetNestedValue(meta, <<lang, key>>)))
  /\ UNCHANGED <<instance, langs, commandInfo, groupInfo, meta, setlang, client, disk>>

\* Lang.getMetadata(lang)
GetMetadata(lang) ==
  /\ ret' = Guarded("getMetadata", "", lang, <<>>,
                    Read("getMetadata", lang, <<>>,
                         IF lang \in DOMAIN meta THEN meta[lang] ELSE EmptyMap))
  /\ UNCHANGED <<instance, langs, commandInfo, groupInfo, meta, setlang, client, disk>>

\* glob.sync(`${dir}/**/*.lang.json`)
GlobLangJson(listing) ==
  SelectSeq(listing,
            LAMBDA f : /\ Len(f.name) >= 3
                       /\ f.name[Len(f.name)] = <<"j", "s", "o", "n">>
                       /\ f.name[Len(f.name) - 1] = <<"l", "a", "n", "g">>)

CommandGroups == <<"c", "o", "m", "m", "a", "n", "d", "g", "r", "o", "u", "p", "s">>

\* /commandgroups\.lang\.json$/.test(langFile), for a file of GlobLangJson
Reserved(f) ==
  LET part == f.name[Len(f.name) - 2]
  IN /\ Len(part) >= Len(CommandGroups)
     /\ SubSeq(part, Len(part) - Len(CommandGroups) + 1, Len(part)) = CommandGroups

\* MergeCommandEntry as it would be if the entry of the file took the place
\* of the entry stored
MergeCommandEntryWhole(C, e) == AssignNestedValue(C, e.command, e.lang, e.fields)

\* the body of the inner loop of loadCommandLocalizationsFrom for the entry
\* e of a file: the fields of the file spread over the fields stored
MergeCommandEntry(C, e) ==
  LET stored == GetNestedValue(C, <<e.command, e.lang>>)
      old == IF stored = Undefined THEN EmptyMap ELSE stored
      new == [f \in DOMAIN old \cup DOMAIN e.fields |->
                IF f \in DOMAIN e.fields THEN e.fields[f] ELSE old[f]]
  IN AssignNestedValue(C, e.command, e.lang, new)

\* the loops over the commands and languages of one file, from entry n on
RECURSIVE MergeCommandEntries(_, _, _)
MergeCommandEntries(C, entries, n) ==
  IF n > Len(entries) THEN C
  ELSE MergeCommandEntries(MergeCommandEntry(C, entries[n]), entries, n + 1)

\* the loop of loadCommandLocalizationsFrom over the files, from file n on:
\* the reserved file and a file that require cannot load are passed over
RECURSIVE MergeCommandFiles(_, _, _)
MergeCommandFiles(C, files, n) ==
  IF n > Len(files) THEN C
  ELSE IF Reserved(files[n]) \/ files[n].bad THEN MergeCommandFiles(C, files, n + 1)
  ELSE MergeCommandFiles(MergeCommandEntries(C, files[n].entries, 1), files, n + 1)

\* the command help text after loadCommandLocalizationsFrom(dir) on C
CommandsLoadedFrom(C, dir) == MergeCommandFiles(C, GlobLangJson(disk[dir]), 1)

\* the setlang command after loadCommandLocalizationsFrom(dir), which returns
\* before postLoad when the directory holds no .lang.json file
SetlangAfterCommands(s, L, C, dir) ==
  IF GlobLangJson(disk[dir]) = <<>> THEN s
  ELSE PostLoadFrom(s, L, CommandsLoadedFrom(C, dir))

\* Lang.loadCommandLocalizationsFrom(dir)
LoadCommandLocalizationsFrom(dir) ==
  /\ ret' = Guarded("loadCommandLocalizationsFrom", dir, <<>>, <<>>,
                    Call("loadCommandLocalizationsFrom", dir, <<>>, <<>>, <<>>, Done))
  /\ commandInfo' = IF instance THEN CommandsLoadedFrom(commandInfo, dir) ELSE commandInfo
  /\ setlang' = IF instance THEN SetlangAfterCommands(setlang, langs, commandInfo, dir)
                ELSE setlang
  /\ UNCHANGED <<instance, langs, groupInfo, meta, client, disk>>

\* glob.sync(`${dir}/**/commandgroups.lang.json`)
GlobGroups(listing) ==
  SelectSeq(listing,
            LAMBDA f : f.name = <<CommandGroups, <<"l", "a", "n", "g">>, <<"j", "s", "o", "n">>>>)

\* the loops of loadGroupLocalizationsFrom over the groups and languages of
\* the file, from entry n on
RECURSIVE AssignGroups(_, _, _)
AssignGroups(G, entries, n) ==
  IF n > Len(entries) THEN G
  ELSE AssignGroups(AssignNestedValue(G, entries[n].group, entries[n].lang, entries[n].desc),
                    entries, n + 1)

\* `Failed to load group localizations from '${filePath}:\n${err.stack}`
GroupFileMessage(dir) == <<"Failed to load group localizations from '", dir>>

\* what loadGroupLocalizationsFrom(dir) on a created instance hands back
GroupsOutcome(dir) ==
  LET found == GlobGroups(disk[dir])
  IN IF found # <<>> /\ found[1].bad THEN Thrown("Error", GroupFileMessage(dir), <<>>)
     ELSE Done

\* the group descriptions after loadGroupLocalizationsFrom(dir) on G
GroupsLoadedFrom(G, dir) ==
  LET found == GlobGroups(disk[dir])
  IN IF found = <<>> \/ found[1].bad THEN G
     ELSE AssignGroups(G, found[1].entries, 1)

\* Lang.loadGroupLocalizationsFrom(dir)
LoadGroupLocalizationsFrom(dir) ==
  /\ ret' = Guarded("loadGroupLocalizationsFrom", dir, <<>>, <<>>,
                    Call("loadGroupLocalizationsFrom", dir, <<>>, <<>>, <<>>, GroupsOutcome(dir)))
  /\ groupInfo' = IF instance THEN GroupsLoadedFrom(groupInfo, dir) ELSE groupInfo
  /\ UNCHANGED <<instance, langs, commandInfo, meta, setlang, client, disk>>

\* path.join(__dirname, './en_us'): the directory of the bundled resources
BaseDir == "base"

MetaName == <<"n", "a", "m", "e">>
English == <<"E", "n", "g", "l", "i", "s", "h">>

\* LocalizationsLoaded as it would be if client.localeDir were loaded before
\* the bundled directory
LocalizationsLoadedLocaleFirst(L, s, C) ==
  LET o0 == IF client.localeDir = "" THEN Done ELSE LoadOutcome(client.localeDir)
      L0 == IF client.localeDir = "" THEN L ELSE LoadedFrom(L, client.localeDir)
      s0 == IF o0.kind = "return" THEN PostLoadFrom(s, L0, C) ELSE s
      o1 == LoadOutcome(BaseDir)
      L1 == LoadedFrom(L0, BaseDir)
      s1 == IF o1.kind = "return" THEN PostLoadFrom(s0, L1, C) ELSE s0
  IN IF o0.kind = "throw"
       THEN [outcome |-> o0, langs |-> L0, setlang |-> s0]
       ELSE [outcome |-> o1, langs |-> L1, setlang |-> s1]

\* the body of Lang.loadLocalizations() after the test of the instance, on
\* the string tables L with the setlang command in state s and the command
\* help text C: the bundled directory first, then client.localeDir if set,
\* the second load not being reached when the first throws
LocalizationsLoaded(L, s, C) ==
  LET o1 == LoadOutcome(BaseDir)
      L1 == LoadedFrom(L, BaseDir)
      s1 == IF o1.kind = "return" THEN PostLoadFrom(s, L1, C) ELSE s
      o2 == LoadOutcome(client.localeDir)
      L2 == LoadedFrom(L1, client.localeDir)
      s2 == IF o2.kind = "return" THEN PostLoadFrom(s1, L2, C) ELSE s1
  IN IF o1.kind = "throw" \/ client.localeDir = ""
       THEN [outcome |-> o1, langs |-> L1, setlang |-> s1]
       ELSE [outcome |-> o2, langs |-> L2, setlang |-> s2]

\* Lang.loadLocalizations()
LoadLocalizations ==
  LET r == LocalizationsLoaded(langs, setlang, commandInfo)
  IN /\ ret' = Guarded("loadLocalizations", "", <<>>, <<>>,
                       Call("loadLocalizations", "", <<>>, <<>>, <<>>, r.outcome))
     /\ meta' = IF instance THEN AssignNestedValue(meta, EN, MetaName, Str(English)) ELSE meta
     /\ langs' = IF instance THEN r.langs ELSE langs
     /\ setlang' = IF instance THEN r.setlang ELSE setlang
     /\ UNCHANGED <<instance, commandInfo, groupInfo, client, disk>>

\* the body of Lang.loadCommandLocalizations() after the test of the
\* instance: the bundled group descriptions, then the help text and the
\* group descriptions of client.commandsDir if set, a throwing call ending it
CommandLocalizationsLoaded(L, s, C, G) ==
  LET o1 == GroupsOutcome(BaseDir)
      G1 == GroupsLoadedFrom(G, BaseDir)
      C2 == CommandsLoadedFrom(C, client.commandsDir)
      s2 == SetlangAfterCommands(s, L, C, client.commandsDir)
      o3 == GroupsOutcome(client.commandsDir)
      G3 == GroupsLoadedFrom(G1, client.commandsDir)
  IN IF o1.kind = "throw" \/ client.commandsDir = ""
       THEN [outcome |-> o1, commandInfo |-> C, setlang |-> s, groupInfo |-> G1]
       ELSE [outcome |-> o3, commandInfo |-> C2, setlang |-> s2, groupInfo |-> G3]

\* Lang.loadCommandLocalizations()
LoadCommandLocalizations ==
  LET r == CommandLocalizationsLoaded(langs, setlang, commandInfo, groupInfo)
  IN /\ ret' = Guarded("loadCommandLocalizations", "", <<>>, <<>>,
                       Call("loadCommandLocalizations", "", <<>>, <<>>, <<>>, r.outcome))
     /\ commandInfo' = IF instance THEN r.commandInfo ELSE commandInfo
     /\ groupInfo' = IF instance THEN r.groupInfo ELSE groupInfo
     /\ setlang' = IF instance THEN r.setlang ELSE setlang
     /\ UNCHANGED <<instance, langs, meta, client, disk>>

\* CommandInfoOf as it would be if the fallback were taken for the record as
\* a whole: the stored entry when there is one, the defaults otherwise
CommandInfoWhole(C, command, lang) ==
  IF GetNestedValue(C, <<command.name, lang>>) = Undefined
    THEN [desc |-> command.desc, info |-> command.info, usage |-> command.usage]
    ELSE [desc |-> GetNestedValue(C, <<command.name, lang, "desc">>),
          info |-> GetNestedValue(C, <<command.name, lang, "info">>),
          usage |-> GetNestedValue(C, <<command.name, lang, "usage">>)]

\* what getCommandInfo hands back for a Command on a created instance
CommandInfoOf(C, command, lang) ==
  [desc |-> Or(GetNestedValue(C, <<command.name, lang, "desc">>), command.desc),
   info |-> Or(GetNestedValue(C, <<command.name, lang, "info">>), command.info),
   usage |-> Or(GetNestedValue(C, <<command.name, lang, "usage">>), command.usage)]

\* Lang.getCommandInfo(command, lang): command.class tells what was passed,
\* "null" for no command, "Command" for an instance of Command
GetCommandInfo(command, lang) ==
  /\ ret' = Guarded("getCommandInfo", "", lang, command.name,
               IF command.class = "null"
                 THEN Call("getCommandInfo", "", lang, command.name, <<>>,
                           Thrown("Error", <<"A Command must be given for which to get Command info">>, <<>>))
               ELSE IF command.class # "Command"
                 THEN Call("getCommandInfo", "", lang, command.name, <<>>,
                           Thrown("TypeError", <<"command must be an instance of Command class">>, <<>>))
               ELSE [Read("getCommandInfo", lang, command.name, CommandInfoOf(commandInfo, command, lang))
                       EXCEPT !.data = command])
  /\ UNCHANGED <<instance, langs, commandInfo, groupInfo, meta, setlang, client, disk>>

\* GroupSentinel as it would be without the language
GroupSentinelBare(group, lang) == <<"g", "r", "o", "u", "p", "_">> \o group

\* `${lang}::group_${group}`
GroupSentinel(group, lang) == lang \o <<":", ":", "g", "r", "o", "u", "p", "_">> \o group

\* Lang.getGroupInfo(group, lang)
GetGroupInfo(group, lang) ==
  /\ ret' = Guarded("getGroupInfo", "", lang, group,
               IF group = <<>>
                 THEN Call("getGroupInfo", "", lang, group, <<>>,
                           Thrown("Error", <<"A group must be provided">>, <<>>))
               ELSE Read("getGroupInfo", lang, group,
                         Or(GetNestedValue(groupInfo, <<group, lang>>),
                            Str(GroupSentinel(group, lang)))))
  /\ UNCHANGED <<instance, langs, commandInfo, groupInfo, meta, setlang, client, disk>>

\* Lang.createResourceLoader(lang): the loader is handed back without a look
\* at the instance; a call of the loader is a call of res
CreateResourceLoader(lang) ==
  /\ ret' = Read("createResourceLoader", lang, <<>>, "loader")
  /\ UNCHANGED <<instance, langs, commandInfo, groupInfo, meta, setlang, client, disk>>

\* new Client(options), from Lang.createInstance(this) on: the instance is
\* created, loadLocalizations runs, and a client that is not passive loads
\* the base commands; an error of loadLocalizations ends the constructor
NewClient ==
  /\ ~instance
  /\ LET r == LocalizationsLoaded(EmptyMap, "absent", EmptyMap)
     IN /\ instance' = TRUE
        /\ langs' = r.langs
        /\ commandInfo' = EmptyMap
        /\ groupInfo' = EmptyMap
        /\ meta' = AssignNestedValue(EmptyMap, EN, MetaName, Str(English))
        /\ setlang' = IF r.outcome.kind = "throw" \/ client.passive THEN "absent"
                      ELSE BaseCommandsLoaded(r.langs, EmptyMap)
        /\ ret' = Call("newClient", "", <<>>, <<>>, <<>>, r.outcome)
  /\ UNCHANGED <<client, disk>>

(***************************************************************************)
(* Bounded inputs                                                           *)
(***************************************************************************)

\* the most pieces a template is put together from
MaxPieces == 3

\* the most files of the locale directory
MaxFiles == 2

\* the texts put together from at most n pieces of P
RECURSIVE Texts(_, _)
Texts(P, n) ==
  IF n = 0 THEN {<<>>}
  ELSE LET shorter == Texts(P, n - 1)
       IN shorter \cup { t \o piece : t \in shorter, piece \in P }

KeyScore == <<"s", "c", "o", "r", "e">>
KeyN1 == <<"n", "1">>

\* pieces of the templates with tokens
TokenPieces ==
  { <<"S", "c", "o", "r", "e", ":", " ">>,
    <<"{", "{", " ", "s", "c", "o", "r", "e", "?", "}", "}">>,
    <<"{", "{", "s", "c", "o", "r", "e", "}", "}">>,
    <<"{", "{", " ", "n", "1", "?", "}", "}">>,
    <<"\n">>,
    <<" ">> }

\* pieces of the templates with script blocks
ScriptPieces ==
  { <<"{", "{", "!", " ">> \o SrcReturnV \o <<" ", "!", "}", "}">>,
    <<"{", "{", "!">> \o SrcCond \o <<"!", "}", "}">>,
    <<"{", "{", "!">> \o SrcEmptyStmt \o <<"!", "}", "}">>,
    <<"{", "{", "!">> \o SrcAssign \o <<"!", "}", "}">>,
    <<"\n">>,
    <<"x">> }

TokenTemplates == Texts(TokenPieces, MaxPieces) \ {<<>>}
ScriptTemplates == Texts(ScriptPieces, MaxPieces) \ {<<>>}

Bag1(name, v) == <<[key |-> name, val |-> v]>>

\* a data value that holds the delimiters of a script block
ScriptValue == <<"{", "{", "!", " ">> \o SrcReturnV \o <<" ", "!", "}", "}">>

\* the calls of res made on the templates with tokens
TokenRequests ==
  { [lang |-> EN, key |-> KeyK, data |-> d] :
      d \in { <<>>, Bag1(KeyScore, Str(<<"1", "0">>)), Bag1(KeyScore, Str(<<>>)),
              Bag1(KeyScore, Undefined), Bag1(KeyN1, Str(<<"7">>)),
              Bag1(KeyScore, Str(ScriptValue)) } }
  \cup { [lang |-> FR, key |-> KeyK, data |-> <<>>] }

\* the calls of res made on the templates with script blocks
ScriptRequests ==
  { [lang |-> EN, key |-> KeyK, data |-> d] :
      d \in { <<>>, Bag1(KeyA, Str(<<"1">>)), Bag1(KeyT, Str(<<"s">>)) } }
  \cup { [lang |-> FR, key |-> KeyK, data |-> <<>>] }

\* the calls of res made on the tables loaded from several files
TableRequests ==
  { [lang |-> l, key |-> k, data |-> d] :
      l \in {EN, FR} \cup ObjectPrototype, k \in {KeyK, KeyM}, d \in { <<>> } }
  \cup { [lang |-> FR, key |-> KeyM, data |-> Bag1(KeyA, Str(<<"1">>))] }

LangFile == <<"l", "a", "n", "g">>

\* the files the locale directory can hold
LocaleFiles ==
  { File(name, entries) :
      name \in { <<EN, <<"c", "m", "d">>, LangFile>>, <<FR, LangFile>> },
      entries \in { <<[key |-> KeyK, val |-> <<"a">>]>>,
                    <<[key |-> KeyK, val |-> <<"b">>]>>,
                    <<[key |-> KeyM, val |-> <<"c">>], [key |-> KeyK, val |-> <<"d">>]>> } }

\* the listings of at most n files of F
RECURSIVE Listings(_, _)
Listings(F, n) ==
  IF n = 0 THEN {<<>>}
  ELSE LET shorter == Listings(F, n - 1)
       IN shorter \cup { Append(l, f) : l \in shorter, f \in F }

\* a directory that holds the one file en_us.lang with the one key k
OneTemplate(template) ==
  [d \in {"base"} |-> <<File(<<EN, LangFile>>, <<[key |-> KeyK, val |-> template]>>)>>]

InitEngine ==
  /\ instance = FALSE
  /\ langs = EmptyMap
  /\ commandInfo = EmptyMap
  /\ groupInfo = EmptyMap
  /\ meta = EmptyMap
  /\ setlang = "absent"
  /\ ret = Call("none", "", <<>>, <<>>, <<>>, Done)

(***************************************************************************)
(* Specifications                                                           *)
(***************************************************************************)

\* the engine on directories of several files
Init ==
  /\ InitEngine
  /\ client \in { [passive |-> FALSE, disableSetlang |-> FALSE, localeDir |-> "locale", commandsDir |-> ""] }
  /\ \E locale \in Listings(LocaleFiles, MaxFiles) :
       disk = [d \in {"base", "locale", "empty"} |->
                 CASE d = "base" ->
                        <<File(<<EN, LangFile>>, <<[key |-> KeyK, val |-> <<"e">>]>>)>>
                   [] d = "locale" -> locale
                   [] d = "empty" -> <<File(<<<<"r", "e", "a", "d", "m", "e">>, <<"m", "d">>>>, <<>>)>>]

\* the engine on one template with tokens
InitTokens ==
  /\ InitEngine
  /\ client = [passive |-> FALSE, disableSetlang |-> TRUE, localeDir |-> "", commandsDir |-> ""]
  /\ \E template \in TokenTemplates : disk = OneTemplate(template)

\* the engine on one template with script blocks
InitScripts ==
  /\ InitEngine
  /\ client = [passive |-> FALSE, disableSetlang |-> TRUE, localeDir |-> "", commandsDir |-> ""]
  /\ \E template \in ScriptTemplates : disk = OneTemplate(template)

\* the operations, res being called with the requests of R
NextOn(R) ==
  \/ CreateInstance
  \/ \E dir \in DOMAIN disk : LoadLocalizationsFrom(dir)
  \/ LoadBaseCommands
  \/ \E r \in R : ResCall(r.lang, r.key, r.data)

Next == NextOn(TableRequests)
NextTokens == NextOn(TokenRequests)
NextScripts == NextOn(ScriptRequests)

(***************************************************************************)
(* The engine with all of its operations                                   *)
(***************************************************************************)

Json == <<"j", "s", "o", "n">>
GroupBase == <<"b", "a", "s", "e">>
GroupEconomy == <<"e", "c", "o", "n", "o", "m", "y">>

\* commands passed to getCommandInfo: two instances of Command with their
\* compiled-in help text, no command, and an object that is not a Command
CommandP ==
  [class |-> "Command", name |-> <<"p">>,
   desc |-> Str(<<"D">>), info |-> Str(<<"I">>), usage |-> Str(<<"U">>)]
CommandQ ==
  [class |-> "Command", name |-> <<"q">>,
   desc |-> Str(<<"D">>), info |-> Str(<<>>), usage |-> Undefined]
NoCommand ==
  [class |-> "null", name |-> <<>>, desc |-> Undefined, info |-> Undefined, usage |-> Undefined]
NotACommand ==
  [class |-> "Object", name |-> <<"p">>,
   desc |-> Str(<<"D">>), info |-> Str(<<"I">>), usage |-> Str(<<"U">>)]

\* the bundled directory: en_us.lang and commandgroups.lang.json
BundledFiles ==
  << File(<<EN, LangFile>>, <<[key |-> KeyK, val |-> <<"e">>]>>),
     File(<<CommandGroups, LangFile, Json>>,
          <<[group |-> GroupBase, lang |-> EN, desc |-> Str(<<"g">>)]>>) >>

\* the listings the locale directory can hold: a second language; two files
\* of the bundled language; a file that cannot be parsed between two others,
\* the first of them of a second language
EngineLocales ==
  << << File(<<FR, LangFile>>, <<[key |-> KeyK, val |-> <<"b">>]>>) >>,
    << File(<<EN, <<"a">>, LangFile>>, <<[key |-> KeyK, val |-> <<"a">>]>>),
       File(<<EN, <<"b">>, LangFile>>,
            <<[key |-> KeyM, val |-> <<"c">>], [key |-> KeyK, val |-> <<"d">>]>>) >>,
    << File(<<FR, <<"a">>, LangFile>>, <<[key |-> KeyK, val |-> <<"b">>]>>),
       Malformed(<<EN, <<"a">>, LangFile>>),
       File(<<EN, <<"b">>, LangFile>>, <<[key |-> KeyM, val |-> <<"c">>]>>) >> >>

\* the listings the commands directory can hold: help text of one command
\* spread over two files, with group descriptions; a file that cannot be
\* loaded before one that can, with group descriptions that cannot be loaded
EngineCommands ==
  << << File(<<<<"h">>, LangFile, Json>>,
            <<[command |-> <<"p">>, lang |-> EN,
               fields |-> [desc |-> Str(<<"x">>), info |-> Str(<<"y">>)]]>>),
       File(<<<<"i">>, LangFile, Json>>,
            <<[command |-> <<"p">>, lang |-> EN, fields |-> [desc |-> Str(<<>>)]],
              [command |-> <<"p">>, lang |-> FR, fields |-> [usage |-> Str(<<"z">>)]]>>),
       File(<<CommandGroups, LangFile, Json>>,
            <<[group |-> GroupBase, lang |-> FR, desc |-> Str(<<"h">>)],
              [group |-> GroupEconomy, lang |-> EN, desc |-> Str(<<>>)]>>) >>,
    << Malformed(<<<<"h">>, LangFile, Json>>),
       File(<<<<"i">>, LangFile, Json>>,
            <<[command |-> <<"p">>, lang |-> FR, fields |-> [desc |-> Str(<<"x">>)]]>>),
       Malformed(<<CommandGroups, LangFile, Json>>) >> >>

\* the directories put together: which locale listing goes with which
\* commands listing
EngineDisks == { <<1, 1>>, <<2, 1>>, <<3, 2>> }

\* the options of the client
EngineClients ==
  { [passive |-> FALSE, disableSetlang |-> FALSE, localeDir |-> "", commandsDir |-> "commands"],
    [passive |-> FALSE, disableSetlang |-> FALSE, localeDir |-> "locale", commandsDir |-> "commands"],
    [passive |-> FALSE, disableSetlang |-> TRUE, localeDir |-> "locale", commandsDir |-> "commands"],
    [passive |-> TRUE, disableSetlang |-> FALSE, localeDir |-> "", commandsDir |-> ""] }

\* the calls of res made on the engine
EngineRequests ==
  { [lang |-> l, key |-> KeyK, data |-> <<>>] : l \in {EN, FR} }

\* the calls of getCommandInfo and of getGroupInfo made on the engine
CommandRequests ==
  { [command |-> CommandP, lang |-> EN], [command |-> CommandP, lang |-> FR],
    [command |-> CommandQ, lang |-> FR], [command |-> NoCommand, lang |-> EN],
    [command |-> NotACommand, lang |-> EN] }
GroupRequests ==
  { [group |-> GroupBase, lang |-> EN], [group |-> GroupBase, lang |-> FR],
    [group |-> GroupEconomy, lang |-> FR], [group |-> GroupEconomy, lang |-> EN],
    [group |-> <<>>, lang |-> FR] }

InitAll ==
  /\ InitEngine
  /\ client \in EngineClients
  /\ \E choice \in EngineDisks :
       disk = [d \in {"base", "locale", "commands", "empty"} |->
                 CASE d = "base" -> BundledFiles
                   [] d = "locale" -> EngineLocales[choice[1]]
                   [] d = "commands" -> EngineCommands[choice[2]]
                   [] d = "empty" -> <<File(<<<<"r", "e", "a", "d", "m", "e">>, <<"m", "d">>>>, <<>>)>>]

NextAll ==
  \/ NewClient
  \/ CreateInstance
  \/ \E dir \in DOMAIN disk : LoadLocalizationsFrom(dir)
  \/ LoadLocalizations
  \/ \E dir \in {"commands", "empty"} : LoadCommandLocalizationsFrom(dir)
  \/ \E dir \in {"base", "commands", "empty"} : LoadGroupLocalizationsFrom(dir)
  \/ LoadCommandLocalizations
  \/ Langs
  \/ LangNamesGet
  \/ SetMetaValue(FR, MetaName, Str(<<"F">>))
  \/ \E lang \in {EN, FR} : GetMetaValue(lang, MetaName)
  \/ GetMetadata(FR)
  \/ \E c \in CommandRequests : GetCommandInfo(c.command, c.lang)
  \/ \E g \in GroupRequests : GetGroupInfo(g.group, g.lang)
  \/ \E r \in EngineRequests : ResCall(r.lang, r.key, r.data)
  \/ CreateResourceLoader(FR)


\* the help text of the commands: a commands directory and the directory
\* of a plugin, whose one file defines the usage of a command
PluginFiles ==
  << File(<<<<"j">>, LangFile, Json>>,
          <<[command |-> <<"p">>, lang |-> EN, fields |-> [usage |-> Str(<<"w">>)]]>>) >>

InitHelp ==
  /\ InitEngine
  /\ client = [passive |-> FALSE, disableSetlang |-> FALSE, localeDir |-> "",
               commandsDir |-> "commands"]
  /\ \E choice \in DOMAIN EngineCommands :
       disk = [d \in {"base", "commands", "plugin", "empty"} |->
                 CASE d = "base" -> BundledFiles
                   [] d = "commands" -> EngineCommands[choice]
                   [] d = "plugin" -> PluginFiles
                   [] d = "empty" -> <<>>]

NextHelp ==
  \/ NewClient
  \/ \E dir \in DOMAIN disk : LoadCommandLocalizationsFrom(dir)
  \/ LoadCommandLocalizations
  \/ \E c \in CommandRequests : GetCommandInfo(c.command, c.lang)

Spec == Init /\ [][Next]_vars
SpecTokens == InitTokens /\ [][NextTokens]_vars
SpecScripts == InitScripts /\ [][NextScripts]_vars
SpecAll == InitAll /\ [][NextAll]_vars
SpecHelp == InitHelp /\ [][NextHelp]_vars

(***************************************************************************)
(* Properties                                                               *)
(***************************************************************************)

\* the last call was res on a created instance
ResDone == ret.op = "res" /\ instance

\* the template res found for the last call, <<>> when there is none
TemplateOf(lang, key) ==
  IF lang \in DOMAIN langs /\ key \in DOMAIN langs[lang] THEN langs[lang][key] ELSE <<>>

\* C1: once the engine is constructed, res(lang, key, data) for a language
\* that is not in the string tables, or for a key that is absent from a known
\* language's table, returns exactly "<lang>::<key>" and never raises.
C1_MissReturnsSentinel ==
  (ResDone /\ (ret.lang \notin DOMAIN langs \/ ret.key \notin DOMAIN langs[ret.lang]))
    => (ret.kind = "return" /\ ret.text = Sentinel(ret.lang, ret.key))

\* the files that the last call of loadLocalizationsFrom found
FilesLoaded == GlobLang(disk[ret.dir])

\* file n of the listing defines key as its entry e, and nothing later in
\* the discovery order defines the key for the same language
LastDefinition(files, n, e) ==
  /\ \A e2 \in (e + 1)..Len(files[n].entries) :
       files[n].entries[e2].key # files[n].entries[e].key
  /\ \A n2 \in (n + 1)..Len(files) :
       files[n2].name[1] = files[n].name[1]
         => \A e2 \in 1..Len(files[n2].entries) :
              files[n2].entries[e2].key # files[n].entries[e].key

\* C2: after loadLocalizationsFrom, every key that a file of the directory
\* defines is in the table of the file's language, with the value of the
\* file merged last in discovery order among the files that define it (so a
\* key defined by one file only has that file's value).
C2_LastMergedFileWins ==
  (ret.op = "loadLocalizationsFrom" /\ ret.kind = "return")
    => \A n \in 1..Len(FilesLoaded) : \A e \in 1..Len(FilesLoaded[n].entries) :
         LET l == FilesLoaded[n].name[1]
             k == FilesLoaded[n].entries[e].key
         IN /\ l \in DOMAIN langs
            /\ k \in DOMAIN langs[l]
            /\ LastDefinition(FilesLoaded, n, e)
                 => langs[l][k] = FilesLoaded[n].entries[e].val

\* C2 witness: a load has merged two files of one language that give one key
\* different values, the later file also holding a key of its own
C2_Witness ==
  /\ ret.op = "loadLocalizationsFrom"
  /\ ret.kind = "return"
  /\ Len(FilesLoaded) = 2
  /\ FilesLoaded[1].name[1] = FilesLoaded[2].name[1]
  /\ FilesLoaded[1].entries = <<[key |-> KeyK, val |-> <<"a">>]>>
  /\ Len(FilesLoaded[2].entries) = 2
  /\ langs[FilesLoaded[1].name[1]][KeyK] = <<"d">>
  /\ langs[FilesLoaded[1].name[1]][KeyM] = <<"c">>

\* the last call was res, and it resolved a stored template
Resolved == ResDone /\ TemplateOf(ret.lang, ret.key) # <<>>

\* C3: in the text res returns, the only tokens of a key of the data bag
\* that are left unreplaced are optional-form tokens whose value is the empty
\* string or undefined; a non-optional {{ key }} is replaced also when the
\* template holds the optional form of the key and the value is empty.
C3_OnlyEmptyOptionalLeft ==
  (Resolved /\ ret.kind = "return")
    => \A n \in 1..Len(ret.data) : \A i \in 1..Len(ret.text) :
         TokenEnd(ret.text, i, ret.data[n].key, FALSE) > 0
           => /\ TokenEnd(ret.text, i, ret.data[n].key, TRUE) > 0
              /\ ret.data[n].val \in {Str(<<>>), Undefined}

\* no brace in s
Plain(s) == \A j \in 1..Len(s) : s[j] \notin {"{", "}"}

\* the optional marker of the key score as the templates spell it
ScoreMarker == <<"{", "{", " ", "s", "c", "o", "r", "e", "?", "}", "}">>

\* the template of the last call holds ScoreMarker once and no other token,
\* and the call supplied no value for score
ScoreOmitted ==
  LET tpl == TemplateOf(ret.lang, ret.key)
      i == IndexOf(tpl, ScoreMarker)
  IN /\ Resolved
     /\ i > 0
     /\ Plain(Slice(tpl, 1, i))
     /\ Plain(Slice(tpl, i + Len(ScoreMarker), Len(tpl) + 1))
     /\ ~Truthy(DataGet(ret.data, KeyScore))

\* the spec's example: "Score: {{ score?}}" and a line break
ScoreLine == <<"S", "c", "o", "r", "e", ":", " ">> \o ScoreMarker \o <<"\n">>

NameChars == Letters \cup {"0", "1", "2", "3", "4", "5", "6", "7", "8", "9", "_"}

\* an optional token marker {{ name? }} of any name starts at position i of s
OptionalMarkerAt(s, i) ==
  /\ HasAt(s, i, <<"{", "{">>)
  /\ LET a == SkipSet(s, i + 2, {" "})
         n == SkipSet(s, a, NameChars)
         b == SkipSet(s, n, {" "})
     IN n > a /\ HasAt(s, b, <<"?", "}", "}">>)

\* C5: the cleanup pass strips every optional token marker that is still
\* unresolved, whatever the token's name, so the returned text holds no
\* {{ name? }} marker.
C5_NoMarkerLeft ==
  (Resolved /\ ret.kind = "return")
    => \A i \in 1..Len(ret.text) : ~OptionalMarkerAt(ret.text, i)

\* C6: res evaluates each script block as its own callable: no body it
\* compiles holds a block delimiter, that is, text between two blocks is
\* never part of an evaluated body.
C6_OneBodyPerBlock ==
  Resolved
    => \A n \in 1..Len(ret.log) :
         /\ IndexOf(ret.log[n].body, <<"!", "}", "}">>) = 0
         /\ IndexOf(ret.log[n].body, <<"{", "{", "!">>) = 0

\* the block whose body is the bare conditional expression args.a?'y':''
CondBlock == <<"{", "{", "!">> \o SrcCond \o <<"!", "}", "}">>

\* the template of the last call holds CondBlock and no other brace
CondAlone ==
  LET tpl == TemplateOf(ret.lang, ret.key)
      i == IndexOf(tpl, CondBlock)
  IN /\ Resolved
     /\ i > 0
     /\ Plain(Slice(tpl, 1, i))
     /\ Plain(Slice(tpl, i + Len(CondBlock), Len(tpl) + 1))

\* C7: a script block whose body is a bare expression is replaced by the
\* value of the expression: the first call returns undefined, the body is
\* run again behind `return` and that result takes the place of the block
\* (with the line break of the block's own line kept after a non-empty value).
C7_BareExpressionValue ==
  CondAlone
    => LET tpl == TemplateOf(ret.lang, ret.key)
           i == IndexOf(tpl, CondBlock)
           pre == Slice(tpl, 1, i)
           post == Slice(tpl, i + Len(CondBlock), Len(tpl) + 1)
           w == SkipSet(post, 1, {" ", "\t"})
           alone == (pre = <<>> \/ pre[Len(pre)] = "\n") /\ HasAt(post, w, <<"\n">>)
           value == IF Truthy(DataGet(ret.data, KeyA)) THEN <<"y">> ELSE <<>>
       IN /\ ret.kind = "return"
          /\ Len(ret.log) = 1
          /\ ret.log[1].call = "value"
          /\ ret.log[1].retry = "value"
          /\ ret.log[1].result = Str(value)
          /\ ret.text =
               IF alone
                 THEN pre \o value \o (IF value = <<>> THEN <<>> ELSE <<"\n">>)
                      \o Slice(post, w + 1, Len(post) + 1)
                 ELSE pre \o value \o post

\* C7 witness: "x{{!args.a?'y':''!}}" resolved with a = "1" is "xy"
C7_Witness ==
  /\ CondAlone
  /\ TemplateOf(ret.lang, ret.key) = <<"x">> \o CondBlock
  /\ ret.data = Bag1(KeyA, Str(<<"1">>))
  /\ ret.text = <<"x", "y">>

\* C8: a block that yields no usable result from the first call and from
\* the implicit-return retry is replaced by the empty string, and the
\* resolution completes.
C8_NoResultBecomesEmpty ==
  Resolved
    => /\ \A n \in 1..Len(ret.log) :
            (ret.log[n].call = "value" /\ ret.log[n].result = Undefined)
              => ret.log[n].out = <<>>
       /\ (\A n \in 1..Len(ret.log) : ret.log[n].call = "value") => ret.kind = "return"

\* res failed with an error that names the language and the key, and
\* returned no text
FailedNamingKey ==
  /\ ret.kind = "throw"
  /\ ret.error = "Error"
  /\ IndexOf(ret.message, Sentinel(ret.lang, ret.key)) > 0
  /\ ret.text = <<>>

C10_LineBreakOnlyAfterOutput ==
  Resolved
    => \A n \in 1..Len(ret.log) :
         LET e == ret.log[n]
             ownLine == e.span[Len(e.span)] = "\n"
             output == e.result.type = "string" /\ e.result.str # <<>>
         IN e.call = "value"
              => IF ownLine /\ output
                   THEN e.out = e.result.str \o <<"\n">>
                   ELSE \A j \in 1..Len(e.out) : e.out[j] # "\n"

\* the help text stored for field f of (name, lang), undefined when there
\* is none
StoredField(name, lang, f) ==
  IF /\ name \in DOMAIN commandInfo
     /\ lang \in DOMAIN commandInfo[name]
     /\ f \in DOMAIN commandInfo[name][lang]
    THEN commandInfo[name][lang][f]
    ELSE Undefined

\* C11: getCommandInfo(command, lang) returns, for each of desc, info and
\* usage on its own, the value stored for (command.name, lang) when it is
\* present and non-empty and the default of the command for that field
\* otherwise; with no entry for the language it returns the three defaults.
C11_PerFieldFallback ==
  (ret.op = "getCommandInfo" /\ ret.kind = "return" /\ instance)
    => /\ \A f \in {"desc", "info", "usage"} :
            LET stored == StoredField(ret.key, ret.lang, f)
            IN ret.value[f] = IF stored.type = "string" /\ stored.str # <<>>
                                THEN stored ELSE ret.data[f]
       /\ (ret.key \notin DOMAIN commandInfo \/ ret.lang \notin DOMAIN commandInfo[ret.key])
            => ret.value = [desc |-> ret.data.desc, info |-> ret.data.info,
                            usage |-> ret.data.usage]

\* C11 witness: for a command with the defaults D, I, U whose stored entry
\* has an empty desc, the info "y" and no usage, getCommandInfo has returned
\* D, y, U
C11_Witness ==
  /\ ret.op = "getCommandInfo"
  /\ ret.kind = "return"
  /\ ret.data = CommandP
  /\ StoredField(ret.key, ret.lang, "desc") = Str(<<>>)
  /\ StoredField(ret.key, ret.lang, "info") = Str(<<"y">>)
  /\ StoredField(ret.key, ret.lang, "usage") = Undefined
  /\ ret.value = [desc |-> Str(<<"D">>), info |-> Str(<<"y">>), usage |-> Str(<<"U">>)]

\* the description stored for (group, lang), undefined when there is none
StoredGroup(group, lang) ==
  IF group \in DOMAIN groupInfo /\ lang \in DOMAIN groupInfo[group]
    THEN groupInfo[group][lang]
    ELSE Undefined

\* what stands between the language and the group in the fallback text
GroupMark == <<":", ":", "g", "r", "o", "u", "p", "_">>

\* C12 as claimed: getGroupInfo(group, lang) returns the description loaded
\* for (group, lang) when there is one and exactly "<lang>::group_<group>"
\* when there is none, and never reports an error, for any group name and
\* language.
C12_GroupOrSentinel ==
  (ret.op = "getGroupInfo" /\ instance)
    => /\ ret.kind = "return"
       /\ ret.value = IF StoredGroup(ret.key, ret.lang) = Undefined
                        THEN Str(ret.lang \o GroupMark \o ret.key)
                        ELSE StoredGroup(ret.key, ret.lang)

\* C12 as amended: for a non-empty group name getGroupInfo returns the
\* description loaded for (group, lang) when there is one and it is not the
\* empty string, and exactly "<lang>::group_<group>" otherwise, without an
\* error; for an empty group name it fails with the error 'A group must be
\* provided'.
C12_NamedGroupOrSentinel ==
  (ret.op = "getGroupInfo" /\ instance)
    => IF ret.key = <<>>
         THEN /\ ret.kind = "throw"
              /\ ret.error = "Error"
              /\ ret.message = <<"A group must be provided">>
         ELSE /\ ret.kind = "return"
              /\ ret.value =
                   IF StoredGroup(ret.key, ret.lang) \in {Undefined, Str(<<>>)}
                     THEN Str(ret.lang \o GroupMark \o ret.key)
                     ELSE StoredGroup(ret.key, ret.lang)

\* C12 witness: with descriptions loaded for another group, getGroupInfo of
\* a group without an entry for fr has returned "fr::group_economy"
C12_Witness ==
  /\ ret.op = "getGroupInfo"
  /\ ret.kind = "return"
  /\ ret.key = GroupEconomy
  /\ ret.lang = FR
  /\ GroupBase \in DOMAIN groupInfo
  /\ StoredGroup(GroupEconomy, FR) = Undefined
  /\ ret.value = Str(<<"f", "r", ":", ":", "g", "r", "o", "u", "p", "_">> \o GroupEconomy)

\* the tables of the engine and the state of the setlang command
tables == <<instance, langs, commandInfo, groupInfo, meta, setlang>>

\* nothing has been stored and no client has been built
Untouched ==
  /\ langs = EmptyMap
  /\ commandInfo = EmptyMap
  /\ groupInfo = EmptyMap
  /\ meta = EmptyMap
  /\ setlang = "absent"

\* the last operation failed with 'Lang singleton instance has not been
\* created'
FailedNotCreated ==
  /\ ret.kind = "throw"
  /\ ret.error = "Error"
  /\ ret.message = NotCreatedMessage

\* C13 as claimed: every static operation of the engine, createResourceLoader
\* among them, that is invoked before createInstance fails with the "not
\* initialized" error and changes no state.
C13_AllFailBeforeCreate ==
  (~instance /\ ret.op # "none") => (FailedNotCreated /\ Untouched)

\* C13 as amended: every static operation other than createResourceLoader
\* that is invoked before createInstance fails with the "not initialized"
\* error and changes no state; createResourceLoader returns a loader without
\* an error and changes no state, and a call of res before createInstance,
\* also through such a loader, fails with that error.
C13_AllButLoaderFail ==
  (~instance /\ ret.op # "none")
    => /\ Untouched
       /\ IF ret.op = "createResourceLoader"
            THEN ret.kind = "return" /\ ret.value = "loader"
            ELSE FailedNotCreated

\* C13 witness: setMetaValue has been called before createInstance, has
\* failed, and no metadata is stored
C13_Witness ==
  /\ ~instance
  /\ ret.op = "setMetaValue"
  /\ FailedNotCreated
  /\ meta = EmptyMap

\* C14 as claimed: createInstance called when the engine exists fails with
\* an initialization error, and the tables are not replaced.
C14_SecondCreateFails ==
  [][(instance /\ ret'.op = "createInstance")
       => (ret'.kind = "throw" /\ UNCHANGED tables)]_vars

\* C14 as amended: createInstance called when the engine exists returns
\* without an error and without an effect: the string, metadata,
\* command-info and group-info tables are not replaced.
C14_SecondCreateIsSilent ==
  [][(instance /\ ret'.op = "createInstance")
       => (ret'.kind = "return" /\ UNCHANGED tables)]_vars

\* C14 witness: createInstance has returned on an engine whose tables hold
\* strings, metadata and help text
C14_Witness ==
  /\ instance
  /\ ret.op = "createInstance"
  /\ ret.kind = "return"
  /\ langs # EmptyMap
  /\ meta # EmptyMap
  /\ commandInfo # EmptyMap
  /\ groupInfo # EmptyMap

\* C15: loadLocalizationsFrom(dir) on a directory without a matching
\* resource file fails with the error "Failed to find any localization files
\* in: <dir>", and the failed call leaves the tables and the state of the
\* setlang command unchanged.
C15_NoFilesFailsWithoutEffect ==
  [][(instance /\ ret'.op = "loadLocalizationsFrom" /\ GlobLang(disk[ret'.dir]) = <<>>)
       => /\ ret'.kind = "throw"
          /\ ret'.error = "Error"
          /\ ret'.message = <<"Failed to find any localization files in: ", ret'.dir>>
          /\ UNCHANGED tables]_vars

\* C15 witness: a load of a directory without resource files has failed on
\* an engine that holds strings and whose setlang command is disabled
C15_Witness ==
  /\ instance
  /\ ret.op = "loadLocalizationsFrom"
  /\ GlobLang(disk[ret.dir]) = <<>>
  /\ ret.kind = "throw"
  /\ langs # EmptyMap
  /\ setlang = "disabled"

\* C16: when one file of a directory cannot be parsed, loadLocalizationsFrom
\* and loadCommandLocalizationsFrom pass over that file and still merge every
\* other file of the directory: the call returns, and every key of every
\* other resource file, and every field of every other help-text file, is in
\* the tables after it.
C16_BadFileSkipped ==
  /\ (instance /\ ret.op = "loadLocalizationsFrom" /\ FilesLoaded # <<>>)
       => /\ ret.kind = "return"
          /\ \A n \in 1..Len(FilesLoaded) :
               ~FilesLoaded[n].bad
                 => \A e \in 1..Len(FilesLoaded[n].entries) :
                      /\ FilesLoaded[n].name[1] \in DOMAIN langs
                      /\ FilesLoaded[n].entries[e].key \in DOMAIN langs[FilesLoaded[n].name[1]]
  /\ (instance /\ ret.op = "loadCommandLocalizationsFrom")
       => /\ ret.kind = "return"
          /\ LET files == GlobLangJson(disk[ret.dir])
             IN \A n \in 1..Len(files) :
                  (~files[n].bad /\ ~Reserved(files[n]))
                    => \A e \in 1..Len(files[n].entries) :
                         \A f \in DOMAIN files[n].entries[e].fields :
                           StoredField(files[n].entries[e].command,
                                       files[n].entries[e].lang, f) # Undefined

\* the client is not passive and has loaded its base commands, setlang among
\* them
ClientWithSetlang == ~client.passive /\ ~client.disableSetlang /\ setlang # "absent"

\* C17: for a non-passive client whose disableBase does not list setlang,
\* between the calls the setlang command is disabled when exactly one
\* language is known and enabled when more than one is known, the known
\* languages being those of the string tables and of the command help text;
\* and setlang is never enabled when disableBase lists it.
C17_SetlangFollowsLanguages ==
  /\ ClientWithSetlang
       => /\ Cardinality(LangNames(langs, commandInfo)) = 1 => setlang = "disabled"
          /\ Cardinality(LangNames(langs, commandInfo)) > 1 => setlang = "enabled"
  /\ client.disableSetlang => setlang # "enabled"

\* C17 without the loads that end in the error of a file: the state of
\* setlang follows the number of languages as long as no call of
\* loadLocalizationsFrom has been cut short
C17_ExceptAfterFileError ==
  (\A n \in 1..Len(disk["locale"]) : ~disk["locale"][n].bad)
    => C17_SetlangFollowsLanguages

\* C18: a call of loadLocalizationsFrom that follows a call on the same
\* directory, the files being unchanged, leaves the string table of every
\* language as the first call left it.
C18_SecondLoadChangesNothing ==
  [][(ret'.op = "loadLocalizationsFrom" /\ ret'.repeat) => langs' = langs]_vars

\* C18 witness: a directory with two files of one language that give one key
\* different values has been loaded twice in a row
C18_Witness ==
  /\ ret.op = "loadLocalizationsFrom"
  /\ ret.repeat
  /\ Len(FilesLoaded) = 2
  /\ FilesLoaded[1].name[1] = FilesLoaded[2].name[1]
  /\ langs[EN][KeyK] = <<"d">>
  /\ langs[EN][KeyM] = <<"c">>

\* C19: a language that has entered the string tables stays in them and
\* every key it holds stays defined: no operation removes a language or a
\* key.
C19_NothingRemoved ==
  [][\A l \in DOMAIN langs :
       /\ l \in DOMAIN langs'
       /\ \A k \in DOMAIN langs[l] : k \in DOMAIN langs'[l]]_vars

\* C19 witness: the bundled directory, whose file defines the key k only,
\* has been loaded into a table that held the key m of another file, and m
\* is still defined
C19_Witness ==
  /\ ret.op = "loadLocalizationsFrom"
  /\ ret.dir = "base"
  /\ ret.kind = "return"
  /\ EN \in DOMAIN langs
  /\ KeyM \in DOMAIN langs[EN]
  /\ langs[EN][KeyK] = <<"e">>

C21_OnlyStoredScriptsRun ==
  Resolved
    => \A n \in 1..Len(ret.log) :
         IndexOf(TemplateOf(ret.lang, ret.key),
                 <<"{", "{", "!">> \o ret.log[n].body \o <<"!", "}", "}">>) > 0

\* a file of the listing defines the key k for the language l
DefinedBy(files, l, k) ==
  \E n \in 1..Len(files) : \E e \in 1..Len(files[n].entries) :
    files[n].name[1] = l /\ files[n].entries[e].key = k

\* the value of the last definition of k for l in the listing
ValueBy(files, l, k) ==
  LET where == CHOOSE p \in { <<n, e>> : n \in 1..Len(files), e \in 1..3 } :
                 /\ p[2] <= Len(files[p[1]].entries)
                 /\ files[p[1]].name[1] = l
                 /\ files[p[1]].entries[p[2]].key = k
                 /\ LastDefinition(files, p[1], p[2])
  IN files[where[1]].entries[where[2]].val

\* the resource files of the bundled directory and of client.localeDir
BundledLang == GlobLang(disk["base"])
LocaleLang == IF client.localeDir = "" THEN <<>> ELSE GlobLang(disk[client.localeDir])

\* C22: loadLocalizations, also at the start of a client, loads the bundled
\* en_us directory and then client.localeDir: a key defined in localeDir has
\* the value of localeDir after it, also when the bundled files define it
\* too, the other bundled keys have the bundled value, and nothing else
\* changes; when localeDir is not set only the bundled files are loaded and
\* the call does not fail.
C22_LocaleDirAfterBundled ==
  [][(ret'.op \in {"loadLocalizations", "newClient"} /\ instance')
       => /\ client.localeDir = "" => ret'.kind = "return"
          /\ ret'.kind = "return"
               => /\ DOMAIN langs' =
                       DOMAIN langs \cup { BundledLang[n].name[1] : n \in 1..Len(BundledLang) }
                                    \cup { LocaleLang[n].name[1] : n \in 1..Len(LocaleLang) }
                  /\ \A l \in DOMAIN langs' : \A k \in DOMAIN langs'[l] :
                       langs'[l][k] =
                         IF DefinedBy(LocaleLang, l, k) THEN ValueBy(LocaleLang, l, k)
                         ELSE IF DefinedBy(BundledLang, l, k) THEN ValueBy(BundledLang, l, k)
                         ELSE langs[l][k]
                  /\ \A l \in DOMAIN langs' : \A k \in {KeyK, KeyM} :
                       (DefinedBy(LocaleLang, l, k) \/ DefinedBy(BundledLang, l, k))
                         => k \in DOMAIN langs'[l]]_vars

\* C22 witness: a client with a localeDir has been constructed, and the key
\* k of en_us, which the bundled file defines as "e" and the last file of
\* localeDir as "d", holds "d"
C22_Witness ==
  /\ ret.op = "newClient"
  /\ ret.kind = "return"
  /\ client.localeDir = "locale"
  /\ DefinedBy(BundledLang, EN, KeyK)
  /\ ValueBy(BundledLang, EN, KeyK) = <<"e">>
  /\ DefinedBy(LocaleLang, EN, KeyK)
  /\ langs[EN][KeyK] = <<"d">>

\* the help text of field f of (name, lang) in the table C, undefined when
\* there is none
FieldIn(C, name, lang, f) ==
  IF name \in DOMAIN C /\ lang \in DOMAIN C[name] /\ f \in DOMAIN C[name][lang]
    THEN C[name][lang][f]
    ELSE Undefined

\* the help-text files of a listing that loadCommandLocalizationsFrom reads
HelpFiles(listing) ==
  SelectSeq(GlobLangJson(listing),
            LAMBDA file : ~file.bad /\ file.name # <<CommandGroups, LangFile, Json>>)

\* file n defines the field f of (name, lang)
FieldDefinedAt(files, n, name, lang, f) ==
  \E e \in 1..Len(files[n].entries) :
    /\ files[n].entries[e].command = name
    /\ files[n].entries[e].lang = lang
    /\ f \in DOMAIN files[n].entries[e].fields

\* the value file n gives the field f of (name, lang)
FieldValueAt(files, n, name, lang, f) ==
  LET e == CHOOSE e \in 1..Len(files[n].entries) :
             /\ files[n].entries[e].command = name
             /\ files[n].entries[e].lang = lang
             /\ f \in DOMAIN files[n].entries[e].fields
  IN files[n].entries[e].fields[f]

\* C23: after loadCommandLocalizationsFrom each of desc, info and usage of a
\* (command, language) pair holds the value of the last loaded file that
\* defines that field, and a field that no file of the call defines keeps the
\* value it had, from an earlier file of an earlier call or none.
C23_FieldWiseMerge ==
  [][(instance /\ ret'.op = "loadCommandLocalizationsFrom")
       => LET files == HelpFiles(disk[ret'.dir])
          IN /\ ret'.kind = "return"
             /\ \A name \in {CommandP.name, CommandQ.name} : \A lang \in {EN, FR} :
                  \A f \in {"desc", "info", "usage"} :
                    LET defining == { n \in 1..Len(files) :
                                        FieldDefinedAt(files, n, name, lang, f) }
                    IN FieldIn(commandInfo', name, lang, f) =
                         IF defining = {} THEN FieldIn(commandInfo, name, lang, f)
                         ELSE FieldValueAt(files, Max(defining), name, lang, f)]_vars

\* C23 witness: the help text of (p, en_us) comes from three files of two
\* load calls: the desc of the second file of the commands directory, the
\* info of its first file, and the usage of the file loaded by the last call
C23_Witness ==
  /\ ret.op = "loadCommandLocalizationsFrom"
  /\ ret.dir = "plugin"
  /\ ret.kind = "return"
  /\ FieldIn(commandInfo, CommandP.name, EN, "desc") = Str(<<>>)
  /\ FieldIn(commandInfo, CommandP.name, EN, "info") = Str(<<"y">>)
  /\ FieldIn(commandInfo, CommandP.name, EN, "usage") = Str(<<"w">>)

====
